---- MODULE Spec2Model ----
(***************************************************************************)
(* Expense anomaly detection (src/server/ml/anomalyDetection.js).          *)
(*                                                                         *)
(* The module models the three exported operations                         *)
(* (detectAnomaliesForCategory, detectAnomaliesForUser,                    *)
(* checkTransactionForAnomaly), the sliding-window detector they fall back *)
(* to, and the external pieces they depend on: the document store (a fetch *)
(* either returns documents or fails) and the isolation-forest model (fit  *)
(* or scoring raises, a score is NaN, or every transaction gets a score).  *)
(*                                                                         *)
(* Numbers.  Amounts are non-negative integers (an amount in some unit),   *)
(* dates are day numbers.  The code works on IEEE doubles; the model       *)
(* compares the same quantities exactly, by cross-multiplication:          *)
(*    n = number of context amounts, S = their sum,                        *)
(*    n*v - S       = n * (v - mean)                                       *)
(*    SumSqDev      = n^2 * sum (v - mean)^2                               *)
(*    stdDev        = sqrt(SumSqDev / n) / n                               *)
(*    score         = (n*a - S) / sqrt(SumSqDev / n)                       *)
(* NaN (an unparsable amount, the time of an Invalid Date) is a value of   *)
(* its own: every comparison with it is false, as in the code.             *)
(***************************************************************************)
EXTENDS Integers, Sequences, FiniteSets, TLC

\* ------------------------------------------------------------------ values

\* The result of parseFloat on an unparsable amount and of getTime() on an
\* Invalid Date: not a number.
NaN == -1

\* A stored amount / date that does not parse (parseFloat, new Date).
Malformed == -2

\* parseFloat(t.amount)
ParseFloat(raw) == IF raw = Malformed THEN NaN ELSE raw

\* new Date(t.date).getTime(), in days
GetTime(raw) == IF raw = Malformed THEN NaN ELSE raw

Min(a, b) == IF a < b THEN a ELSE b

MaxOf(S) == CHOOSE m \in S : \A x \in S : x <= m

\* Array.prototype.reduce((sum, val) => sum + val, 0) over numbers
SumSeq(s) ==
  LET acc[k \in 0..Len(s)] == IF k = 0 THEN 0 ELSE acc[k - 1] + s[k]
  IN  acc[Len(s)]

\* Array.prototype.map
MapSeq(s, F(_)) == [k \in 1..Len(s) |-> F(s[k])]

\* Array.prototype.flatMap over a sequence of sequences
Flatten(ss) ==
  LET acc[k \in 0..Len(ss)] == IF k = 0 THEN <<>> ELSE acc[k - 1] \o ss[k]
  IN  acc[Len(ss)]

\* ------------------------------------------------------------------- sort

\* One insertion step of a stable sort: x goes right after the last element
\* that the comparator does not put after it (Cmp(e, x) <= 0).  A comparator
\* result of NaN counts as +0 (ECMAScript SortCompare).
SortInsert(sorted, x, Cmp(_, _)) ==
  LET keep == {k \in 1..Len(sorted) : Cmp(sorted[k], x) <= 0}
      j    == IF keep = {} THEN 0 ELSE MaxOf(keep)
  IN  SubSeq(sorted, 1, j) \o <<x>> \o SubSeq(sorted, j + 1, Len(sorted))

\* Array.prototype.sort(compareFn): stable.
SortWith(s, Cmp(_, _)) ==
  LET ins[k \in 0..Len(s)] ==
        IF k = 0 THEN <<>> ELSE SortInsert(ins[k - 1], s[k], Cmp)
  IN  ins[Len(s)]

\* (a, b) => new Date(a.date) - new Date(b.date); NaN when either date is
\* invalid, which the sort takes as 0.
CompareDateAsc(a, b) ==
  IF GetTime(a.date) = NaN \/ GetTime(b.date) = NaN
  THEN 0
  ELSE GetTime(a.date) - GetTime(b.date)

\* ------------------------------------------------------------------ names

\* Strings that the code takes apart are sequences of characters.
NoName == <<>>

ToUpperCase(ch) ==
  CASE ch = "f" -> "F"
    [] ch = "r" -> "R"
    [] OTHER    -> ch

\* categoryId.charAt(0).toUpperCase() + categoryId.slice(1)
Capitalize(categoryId) ==
  IF Len(categoryId) = 0
  THEN <<>>
  ELSE <<ToUpperCase(Head(categoryId))>> \o Tail(categoryId)

\* ------------------------------------------------- sliding-window detector

windowSize == 10

minWindowSize == 5

\* A score is kept as the pair it is computed from: its value is
\* num / sqrt(sq / n).  It is +Infinity when sq = 0 (division by a zero
\* standard deviation); the model's scores of the outlier model are m / 10,
\* kept as num = m, sq = 100, n = 1.
IsInfinite(score) == score.sq = 0 /\ score.num > 0

\* score > k, for an integer k >= 0
ScoreGreater(score, k) ==
  score.num > 0 /\ score.num * score.num * score.n > k * k * score.sq

\* sum over the context of (n * (v - mean))^2
SumSqDev(contextAmounts) ==
  LET n == Len(contextAmounts)
      S == SumSeq(contextAmounts)
  IN  SumSeq([k \in 1..n |-> (n * contextAmounts[k] - S) * (n * contextAmounts[k] - S)])

HasNaN(amounts) == \E k \in 1..Len(amounts) : amounts[k] = NaN

\* A variant with the threshold at mean + 2 * stdDev.
ExceedsTwoSigma(currentAmount, contextAmounts) ==
  LET n == Len(contextAmounts)
      X == n * currentAmount - SumSeq(contextAmounts)
  IN  /\ currentAmount # NaN
      /\ ~HasNaN(contextAmounts)
      /\ X > 0
      /\ X * X * n > 4 * SumSqDev(contextAmounts)

\* currentAmount > threshold, threshold = mean + 2.5 * stdDev
ExceedsThreshold(currentAmount, contextAmounts) ==
  LET n == Len(contextAmounts)
      X == n * currentAmount - SumSeq(contextAmounts)
  IN  /\ currentAmount # NaN
      /\ ~HasNaN(contextAmounts)
      /\ X > 0
      /\ 4 * X * X * n > 25 * SumSqDev(contextAmounts)

\* (currentAmount - mean) / stdDev
WindowScore(currentAmount, contextAmounts) ==
  [num |-> Len(contextAmounts) * currentAmount - SumSeq(contextAmounts),
   sq  |-> SumSqDev(contextAmounts),
   n   |-> Len(contextAmounts)]

\* A variant whose bands take their boundary in: score >= 5, score >= 3.
WindowReasonInclusive(score, currentTx) ==
  [kind |-> IF score.num * score.num * score.n >= 25 * score.sq THEN "extremely high"
            ELSE IF score.num * score.num * score.n >= 9 * score.sq THEN "significantly higher"
            ELSE "higher than typical",
   name |-> currentTx.categoryName]

\* The three reason templates; each interpolates currentTx.categoryName || ''.
WindowReason(score, currentTx) ==
  [kind |-> IF ScoreGreater(score, 5) THEN "extremely high"
            ELSE IF ScoreGreater(score, 3) THEN "significantly higher"
            ELSE "higher than typical",
   name |-> currentTx.categoryName]

\* A variant whose window is centred on i: it takes in the transactions
\* after i as well.
ContextWindowCentred(transactions, i) ==
  LET availableContext == Min(windowSize, i)
  IN  SubSeq(transactions, i - availableContext + 1, i)
      \o SubSeq(transactions, i + 2, Len(transactions))

\* transactions.slice(i - availableContext, i), i counted from 0
ContextWindow(transactions, i) ==
  LET availableContext == Min(windowSize, i)
  IN  SubSeq(transactions, i - availableContext + 1, i)

Annotate(tx, score, reason) ==
  [id |-> tx.id, type |-> tx.type, category |-> tx.category,
   amount |-> tx.amount, date |-> tx.date, categoryName |-> tx.categoryName,
   anomalyScore |-> score, reason |-> reason]

\* The body of the loop for index i (from 0): the anomaly pushed, if any.
WindowStep(transactions, i) ==
  LET currentTx      == transactions[i + 1]
      contextAmounts == MapSeq(ContextWindow(transactions, i),
                               LAMBDA t : ParseFloat(t.amount))
      currentAmount  == ParseFloat(currentTx.amount)
  IN  IF ExceedsThreshold(currentAmount, contextAmounts)
      THEN LET score == WindowScore(currentAmount, contextAmounts)
           IN  <<Annotate(currentTx, score, WindowReason(score, currentTx))>>
      ELSE <<>>

SortByDate(transactions) == SortWith(transactions, CompareDateAsc)

detectAnomaliesWithSlidingWindow(transactions) ==
  LET sorted == SortByDate(transactions)
      loop[k \in 0..Len(sorted)] ==
        IF k <= minWindowSize THEN <<>>
        ELSE loop[k - 1] \o WindowStep(sorted, k - 1)
  IN  loop[Len(sorted)]

\* --------------------------------------------------------- outlier model

\* Scores of the outlier model are counted in tenths: -3 is -0.3.
ScoreThreshold == -3

ModelScore(m) == [num |-> m, sq |-> 100, n |-> 1]

\* (a, b) => a.anomalyScore - b.anomalyScore
CompareScoreAsc(a, b) == a.anomalyScore.num - b.anomalyScore.num

\* anomaly.amount / avgAmount > num / den, avgAmount the mean of all amounts
RatioGreater(amount, amounts, num, den) ==
  /\ amount # NaN
  /\ ~HasNaN(amounts)
  /\ den * amount * Len(amounts) > num * SumSeq(amounts)

generateAnomalyReason(anomaly, allTransactions) ==
  LET amounts == MapSeq(allTransactions, LAMBDA t : ParseFloat(t.amount))
      amount  == ParseFloat(anomaly.amount)
      isMax   == /\ amount # NaN
                 /\ ~HasNaN(amounts)
                 /\ \A k \in 1..Len(amounts) : amounts[k] <= amount
  IN  [kind |-> IF RatioGreater(amount, amounts, 3, 1) THEN "N.Nx higher than average"
                ELSE IF RatioGreater(amount, amounts, 3, 2) THEN "significantly higher than typical"
                ELSE IF isMax THEN "largest recorded expense"
                ELSE "unusual pattern",
       name |-> anomaly.categoryName]

\* transactions.find(t => t.categoryName && t.category === categoryId), then
\* its name, else the capitalized identifier.
ResolvedName(transactions, categoryId) ==
  LET named == {k \in 1..Len(transactions) :
                  /\ transactions[k].categoryName # NoName
                  /\ transactions[k].category = categoryId}
  IN  IF named # {}
      THEN transactions[CHOOSE k \in named : \A j \in named : k <= j].categoryName
      ELSE Capitalize(categoryId)

\* if (!anomaly.categoryName && anomaly.category) anomaly.categoryName = ...
WithCategoryName(anomaly, transactions, categoryId) ==
  IF anomaly.categoryName = NoName /\ anomaly.category # <<>>
  THEN [anomaly EXCEPT !.categoryName = ResolvedName(transactions, categoryId)]
  ELSE anomaly

\* The outlier-model path once every score is a number: score, filter, sort,
\* give each anomaly its reason and then its category name.
ModelAnomalies(transactions, scores, categoryId) ==
  LET scored  == [k \in 1..Len(transactions) |->
                    Annotate(transactions[k], ModelScore(scores[k]),
                             [kind |-> "", name |-> NoName])]
      flagged == SortWith(SelectSeq(scored, LAMBDA t : t.anomalyScore.num < ScoreThreshold),
                          CompareScoreAsc)
  IN  [k \in 1..Len(flagged) |->
         WithCategoryName(
           [flagged[k] EXCEPT !.reason = generateAnomalyReason(flagged[k], transactions)],
           transactions, categoryId)]

\* new Date(a.date).toISOString() raises a RangeError on an Invalid Date; the
\* fallback path evaluates it for every anomaly when it logs them.
LoggingThrows(anomalies) ==
  \E k \in 1..Len(anomalies) : GetTime(anomalies[k].date) = NaN

\* The fallback path: the window detector (which sorts `transactions` in
\* place), then the category name of each anomaly.
FallbackAnomalies(transactions, categoryId) ==
  LET anomalies == detectAnomaliesWithSlidingWindow(transactions)
      sorted    == SortByDate(transactions)
  IN  [k \in 1..Len(anomalies) |-> WithCategoryName(anomalies[k], sorted, categoryId)]

\* A variant of the test below that lets four transactions through.
EnoughOfFour(transactions) == Len(transactions) < 4

\* transactions.length < 5
NotEnough(transactions) == Len(transactions) < 5

\* ------------------------------------------------------------------ state

VARIABLES
  store,        \* the user's transaction documents, in date-index order
  catPc,        \* per category: where its detectAnomaliesForCategory run is
  catFetch,     \* per category: what the store answered to its query
  catModel,     \* per category: what the outlier model did in that run
  catResult,    \* per category: the value the run resolved with
  userPc,       \* where detectAnomaliesForUser is
  userFetch,    \* what the store answered to its listing
  userCats,     \* the distinct categories, in the order of the Set
  feed,         \* the value detectAnomaliesForUser returned
  checkPc,      \* where checkTransactionForAnomaly is
  checkFetch,   \* what the store answered to its query
  checkTx,      \* its transaction argument
  checkResult,  \* the value it returned
  winInput,     \* the array handed to detectAnomaliesWithSlidingWindow
                \* (sorted in place once the call has returned)
  winOut,       \* the anomalies it returned
  winPc,        \* "ready" | "returned"
  winChange,    \* "none", or how the last call's input differed from the
                \* one before: "later" (a transaction after a flagged one
                \* had its amount changed) or "other"
  userDoc,      \* the categories field of the document users/{userId}
  managerCategories, \* CategoryManager's state `categories`, as last rendered
  newCategory,  \* its state `newCategory`, the text of the name field
  error,        \* its state `error`
  pending,      \* the handlers awaiting updateDoc, oldest first, each with
                \* the list it computed from the render it was started in
  clock,        \* Date.now()
  addsDone,     \* the categories added by a completed handleAddCategory
                \* and not deleted by a handleDeleteCategory completed later
  deletesDone,  \* the identifiers deleted by a completed
                \* handleDeleteCategory and not added again later
  writeFailed,  \* whether an updateDoc has been rejected
  started,      \* how many handlers have been started
  overlapped    \* whether a handler was started while another was pending

vars == <<store, catPc, catFetch, catModel, catResult, userPc, userFetch,
          userCats, feed, checkPc, checkFetch, checkTx, checkResult,
          winInput, winOut, winPc, winChange,
          userDoc, managerCategories, newCategory, error, pending, clock,
          addsDone, deletesDone, writeFailed, started, overlapped>>

catVars == <<catPc, catFetch, catModel, catResult>>

userVars == <<userPc, userFetch, userCats, feed>>

checkVars == <<checkPc, checkFetch, checkTx, checkResult>>

opVars == <<store, catVars, userVars, checkVars>>

winVars == <<winInput, winOut, winPc, winChange>>

managerVars == <<userDoc, managerCategories, newCategory, error, pending, clock,
                 addsDone, deletesDone, writeFailed, started, overlapped>>

\* The component is not mounted.
ManagerUnused ==
  /\ userDoc = <<>>
  /\ managerCategories = <<>>
  /\ newCategory = <<>>
  /\ error = ""
  /\ pending = <<>>
  /\ clock = 0
  /\ addsDone = {}
  /\ deletesDone = {}
  /\ writeFailed = FALSE
  /\ started = 0
  /\ overlapped = FALSE

\* ----------------------------------------------------------------- inputs

Food == <<"f", "o", "o", "d">>

Rent == <<"r", "e", "n", "t">>

Groceries == <<"G", "r", "o", "c", "e", "r", "i", "e", "s">>

Doc(id, type, category, amount, date, categoryName) ==
  [id |-> id, type |-> type, category |-> category, amount |-> amount,
   date |-> date, categoryName |-> categoryName]

\* Longest array handed to the sliding-window detector.
MaxLen == 12

\* Most entries of such an array that are not the ordinary amount.
MaxSpikes == 2

\* The ordinary amount and the high one (in units of 100 for the series of
\* ten 100s followed by 10000).
Lo == 1

Hi == 100

DateLayouts == {"daily", "paired", "partly"}

\* The date of the k-th document: consecutive days, two a day, or every
\* third date unparsable.
LayoutDate(layout, k) ==
  CASE layout = "daily"  -> k
    [] layout = "paired" -> (k + 1) \div 2
    [] OTHER             -> IF k % 3 = 0 THEN Malformed ELSE k

NonOrdinary(amounts) == Cardinality({k \in 1..Len(amounts) : amounts[k] # Lo})

WindowAmounts(n) ==
  UNION {{[k \in 1..n |-> IF k \in P THEN f[k] ELSE Lo] : f \in [P -> {Hi, Malformed}]}
         : P \in {Q \in SUBSET (1..n) : Cardinality(Q) <= MaxSpikes}}

WindowSeries(amounts, layout) ==
  [k \in 1..Len(amounts) |->
     Doc(k, "expense", Food, amounts[k], LayoutDate(layout, k), Groceries)]

\* Amounts 50, 52, 49, 51, 53, 500 on consecutive days.
ExampleSeries == WindowSeries(<<50, 52, 49, 51, 53, 500>>, "daily")

WindowInputs ==
  {WindowSeries(a, l) : a \in UNION {WindowAmounts(n) : n \in 0..MaxLen},
                        l \in DateLayouts}
  \cup {ExampleSeries}

Categories == {Food, Rent}

\* { anomalies, categoryId, message?, method? }
CategoryResult(anomalies, categoryId, message, method) ==
  [anomalies |-> anomalies, categoryId |-> categoryId,
   message |-> message, method |-> method]

NoResult == CategoryResult(<<>>, <<>>, FALSE, FALSE)

NoTx == Doc(0, "expense", <<>>, 0, 0, NoName)

NoScore == [num |-> 0, sq |-> 0, n |-> 0]

NoReason == [kind |-> "", name |-> NoName]

\* What checkTransactionForAnomaly returns: null, or the transaction with
\* isAnomaly and, when it is one, its score and reason.
Null == [isNull |-> TRUE, tx |-> NoTx, isAnomaly |-> FALSE,
         anomalyScore |-> NoScore, reason |-> NoReason]

Checked(tx, isAnomaly, score, reason) ==
  [isNull |-> FALSE, tx |-> tx, isAnomaly |-> isAnomaly,
   anomalyScore |-> score, reason |-> reason]

InitOps ==
  /\ catPc = [c \in Categories |-> "idle"]
  /\ catFetch = [c \in Categories |-> "none"]
  /\ catModel = [c \in Categories |-> "not run"]
  /\ catResult = [c \in Categories |-> NoResult]
  /\ userPc = "idle"
  /\ userFetch = "none"
  /\ userCats = <<>>
  /\ feed = <<>>
  /\ checkPc = "idle"
  /\ checkFetch = "none"
  /\ checkTx = NoTx
  /\ checkResult = Null

InitWindowVars ==
  /\ winInput = <<>>
  /\ winOut = <<>>
  /\ winPc = "unused"
  /\ winChange = "none"

\* ------------------------------------------- the detector, called directly

InitWindow ==
  /\ store = <<>>
  /\ InitOps
  /\ winInput \in WindowInputs
  /\ ManagerUnused
  /\ winOut = <<>>
  /\ winPc = "ready"
  /\ winChange = "none"

\* detectAnomaliesWithSlidingWindow(winInput)
SlidingWindowCall ==
  /\ winPc = "ready"
  /\ winOut' = detectAnomaliesWithSlidingWindow(winInput)
  /\ winInput' = SortByDate(winInput)    \* the array is sorted in place
  /\ winPc' = "returned"
  /\ UNCHANGED winChange
  /\ UNCHANGED <<opVars, managerVars>>

\* The same call after the amount of one transaction has changed.
SlidingWindowCallChanged(k, v) ==
  /\ winPc = "returned"
  /\ winChange = "none"
  /\ winInput # ExampleSeries
  /\ k \in 1..Len(winInput)
  /\ v # winInput[k].amount
  /\ LET changed == [winInput EXCEPT ![k].amount = v]
     IN  /\ NonOrdinary([j \in 1..Len(changed) |-> changed[j].amount]) <= MaxSpikes
         /\ winInput' = SortByDate(changed)
         /\ winOut' = detectAnomaliesWithSlidingWindow(changed)
  /\ winChange' = IF \E i \in 1..(k - 1) : \E j \in 1..Len(winOut) : winOut[j].id = winInput[i].id
                  THEN "later" ELSE "other"
  /\ UNCHANGED winPc
  /\ UNCHANGED <<opVars, managerVars>>

NextWindow ==
  \/ SlidingWindowCall
  \/ \E k \in 1..MaxLen, v \in {Lo, Hi, Malformed} : SlidingWindowCallChanged(k, v)

SpecWindow == InitWindow /\ [][NextWindow]_vars

\* ------------------------------------------------------------ the store

\* Most documents of one category in the store.
MaxTx == 6

\* Most transactions the outlier model gives a score below the threshold.
MaxFlagged == 2

\* The display name the documents of a category carry, when they carry one.
DisplayName(c) == IF c = Food THEN Groceries ELSE NoName

\* The expense documents of category c: dated on consecutive days, the last
\* one on lastDate; the first `named` of them carry the display name.
Series(c, firstId, amounts, lastDate, named) ==
  [k \in 1..Len(amounts) |->
     Doc(firstId + k, "expense", c, amounts[k],
         IF k = Len(amounts) THEN lastDate ELSE k,
         IF k <= named THEN DisplayName(c) ELSE NoName)]

\* An income document of category Food: no query may return it.
Salary == Doc(99, "income", Food, 9, 1, Groceries)

\* Amounts of n documents: ordinary ones (1 or 3), then any last one.
SeriesAmounts(n) ==
  {[k \in 1..n |-> IF k = n THEN l ELSE h[k]] : h \in [1..n -> {1, 3}], l \in {1, 3, 9}}

\* Stores with one category, of every such series up to MaxTx documents.
CategoryStores ==
  {<<Salary>> \o Series(Food, 0, a, d, m) :
     a \in UNION {SeriesAmounts(n) : n \in 0..MaxTx},
     d \in {MaxTx, Malformed},
     m \in {0, 1, MaxTx}}

\* Amounts 1, 3, 1, 3, ... and a last one.
Alternating(n, l) == [k \in 1..n |-> IF k = n THEN l ELSE IF k % 2 = 1 THEN 1 ELSE 3]

\* Stores with two categories: Food with MaxTx documents, the last a high
\* amount and its date perhaps unparsable; Rent with none, with MaxTx - 2 or
\* with MaxTx - 1.
UserStores ==
  {<<Salary>> \o Series(Food, 0, Alternating(MaxTx, 9), d1, 1)
              \o Series(Rent, 10, Alternating(n2, 1), d2, 0) :
     d1 \in {MaxTx, Malformed},
     n2 \in {0} \cup ((MaxTx - 2)..(MaxTx - 1)), d2 \in {MaxTx}}

\* .where('type', '==', 'expense').where('category', '==', categoryId)
\* .orderBy('date', 'asc'): the store lists its documents in index order.
QueryCategory(docs, categoryId) ==
  SelectSeq(docs, LAMBDA d : d.type = "expense" /\ d.category = categoryId)

\* .where('type', '==', 'expense')
QueryExpenses(docs) == SelectSeq(docs, LAMBDA d : d.type = "expense")

\* The Set of the truthy categories of the listed documents.
DistinctCategories(docs) ==
  {docs[k].category : k \in {j \in 1..Len(docs) : docs[j].category # <<>>}}

Orders(S) == {q \in [1..Cardinality(S) -> S] : \A c \in S : \E k \in 1..Cardinality(S) : q[k] = c}

\* ------------------------------------------------------ the outlier model

\* What isolationForest.fit / scores may do on n feature vectors: raise,
\* return a NaN score, or return n scores of which at most MaxFlagged are
\* below the threshold (-0.4 or -0.5; the others are -0.3).
ModelOutcomes(n) ==
  {[kind |-> "threw", scores |-> <<>>], [kind |-> "nan", scores |-> <<>>]}
  \cup UNION {{[kind |-> "ok", scores |-> [k \in 1..n |-> IF k \in P THEN f[k] ELSE -3]]
                 : f \in [P -> {-4, -5}]}
              : P \in {Q \in SUBSET (1..n) : Cardinality(Q) <= MaxFlagged}}

\* ------------------------------------------------------------- operations

AllIdle ==
  /\ userPc = "idle"
  /\ checkPc = "idle"
  /\ \A c \in Categories : catPc[c] = "idle"

\* detectAnomaliesForCategory(userId, c), up to its await of the query
StartCategory(c) ==
  /\ catPc' = [catPc EXCEPT ![c] = "fetching"]
  /\ catFetch' = [catFetch EXCEPT ![c] = "pending"]

\* The application calls detectAnomaliesForCategory.
CategoryCall(c) ==
  /\ AllIdle
  /\ StartCategory(c)
  /\ UNCHANGED <<store, catModel, catResult, userVars, checkVars, winVars, managerVars>>

\* A variant of the outer catch that returns an empty result.
CategoryFetchMasked(c) ==
  /\ catPc[c] = "fetching"
  /\ catFetch' = [catFetch EXCEPT ![c] = "failed"]
  /\ catPc' = [catPc EXCEPT ![c] = "resolved"]
  /\ catResult' = [catResult EXCEPT ![c] = CategoryResult(<<>>, c, FALSE, FALSE)]
  /\ UNCHANGED <<store, catModel, userVars, checkVars, winVars, managerVars>>

\* The query fails: the outer catch logs and rethrows.
CategoryFetchFails(c) ==
  /\ catPc[c] = "fetching"
  /\ catFetch' = [catFetch EXCEPT ![c] = "failed"]
  /\ catPc' = [catPc EXCEPT ![c] = "rejected"]
  /\ UNCHANGED <<store, catModel, catResult, userVars, checkVars, winVars, managerVars>>

\* The query returns and the run goes on to its end: too few transactions,
\* the outlier-model path, or the fallback path.
CategoryFetchReturns(c) ==
  /\ catPc[c] = "fetching"
  /\ catFetch' = [catFetch EXCEPT ![c] = "ok"]
  /\ LET transactions == QueryCategory(store, c)
     IN  IF NotEnough(transactions)
         THEN /\ catResult' = [catResult EXCEPT ![c] = CategoryResult(<<>>, c, TRUE, FALSE)]
              /\ catPc' = [catPc EXCEPT ![c] = "resolved"]
              /\ UNCHANGED catModel
         ELSE \E outcome \in ModelOutcomes(Len(transactions)) :
                /\ catModel' = [catModel EXCEPT ![c] = outcome.kind]
                /\ IF outcome.kind = "ok"
                   THEN /\ catResult' = [catResult EXCEPT ![c] =
                             CategoryResult(ModelAnomalies(transactions, outcome.scores, c),
                                            c, FALSE, FALSE)]
                        /\ catPc' = [catPc EXCEPT ![c] = "resolved"]
                   ELSE LET anomalies == FallbackAnomalies(transactions, c)
                        IN  IF LoggingThrows(anomalies)
                            THEN /\ catPc' = [catPc EXCEPT ![c] = "rejected"]
                                 /\ UNCHANGED catResult
                            ELSE /\ catResult' = [catResult EXCEPT ![c] =
                                       CategoryResult(anomalies, c, FALSE, TRUE)]
                                 /\ catPc' = [catPc EXCEPT ![c] = "resolved"]
  /\ UNCHANGED <<store, userVars, checkVars, winVars, managerVars>>

\* The application calls detectAnomaliesForUser.
UserCall ==
  /\ AllIdle
  /\ userPc' = "listing"
  /\ userFetch' = "pending"
  /\ UNCHANGED <<store, catVars, userCats, feed, checkVars, winVars, managerVars>>

\* The listing fails: the catch logs and rethrows.
UserListingFails ==
  /\ userPc = "listing"
  /\ userFetch' = "failed"
  /\ userPc' = "failed"
  /\ UNCHANGED <<store, catVars, userCats, feed, checkVars, winVars, managerVars>>

\* The listing returns: nothing to do, or one category run per category.
UserListingReturns ==
  /\ userPc = "listing"
  /\ userFetch' = "ok"
  /\ LET expenses   == QueryExpenses(store)
         categories == DistinctCategories(expenses)
     IN  IF Len(expenses) = 0 \/ categories = {}
         THEN /\ userPc' = "returned"
              /\ feed' = <<>>
              /\ userCats' = <<>>
              /\ UNCHANGED <<catPc, catFetch>>
         ELSE /\ userCats' \in Orders(categories)
              /\ catPc' = [c \in Categories |-> IF c \in categories THEN "fetching" ELSE catPc[c]]
              /\ catFetch' = [c \in Categories |-> IF c \in categories THEN "pending" ELSE catFetch[c]]
              /\ userPc' = "awaiting"
              /\ UNCHANGED feed
  /\ UNCHANGED <<store, catModel, catResult, checkVars, winVars, managerVars>>

\* A variant of the join that goes on as soon as one run has resolved.
AnyResolved == \E k \in 1..Len(userCats) : catPc[userCats[k]] = "resolved"

\* Promise.all(categoryPromises) fulfils.
AllResolved == \A k \in 1..Len(userCats) : catPc[userCats[k]] = "resolved"

\* Promise.all(categoryPromises) rejects.
SomeRejected == \E k \in 1..Len(userCats) : catPc[userCats[k]] = "rejected"

\* |b.anomalyScore| - |a.anomalyScore|, as a sign; NaN (both infinite) is 0.
CompareAbsScoreDesc(a, b) ==
  LET la == a.anomalyScore.num * a.anomalyScore.num * a.anomalyScore.n * b.anomalyScore.sq
      lb == b.anomalyScore.num * b.anomalyScore.num * b.anomalyScore.n * a.anomalyScore.sq
  IN  IF lb > la THEN 1 ELSE IF lb < la THEN -1 ELSE 0

\* The comparator of the feed: date descending, then |score| descending.
CompareFeed(a, b) ==
  IF GetTime(a.date) = NaN \/ GetTime(b.date) = NaN
  THEN 0
  ELSE IF GetTime(b.date) # GetTime(a.date)
       THEN GetTime(b.date) - GetTime(a.date)
       ELSE CompareAbsScoreDesc(a, b)

\* results.flatMap(result => result.anomalies).sort(...)
MergedFeed(results) ==
  SortWith(Flatten([k \in 1..Len(results) |-> results[k].anomalies]), CompareFeed)

\* Every run has resolved: merge, sort, return.
UserJoin ==
  /\ userPc = "awaiting"
  /\ AllResolved
  /\ feed' = MergedFeed([k \in 1..Len(userCats) |-> catResult[userCats[k]]])
  /\ userPc' = "returned"
  /\ UNCHANGED <<store, catVars, userFetch, userCats, checkVars, winVars, managerVars>>

\* A run has rejected: the catch logs and rethrows.
UserReject ==
  /\ userPc = "awaiting"
  /\ SomeRejected
  /\ userPc' = "failed"
  /\ UNCHANGED <<store, catVars, userFetch, userCats, feed, checkVars, winVars, managerVars>>

\* The transactions the application may check: a stored expense (so already
\* present by identifier) or a new one, dated first, next to last or last.
CheckArguments ==
  {store[k] : k \in {j \in 1..Len(store) : store[j].type = "expense"}}
  \cup {Doc(0, "expense", Food, a, d, Groceries) : a \in {1, 3, 9}, d \in {1, MaxTx - 1, MaxTx + 1}}

\* The application calls checkTransactionForAnomaly.
CheckCall(tx) ==
  /\ AllIdle
  /\ checkPc' = "fetching"
  /\ checkFetch' = "pending"
  /\ checkTx' = tx
  /\ UNCHANGED <<store, catVars, userVars, checkResult, winVars, managerVars>>

\* The query fails: the catch logs and returns null.
CheckFetchFails ==
  /\ checkPc = "fetching"
  /\ checkFetch' = "failed"
  /\ checkResult' = Null
  /\ checkPc' = "returned"
  /\ UNCHANGED <<store, catVars, userVars, checkTx, winVars, managerVars>>

\* The documents of the query other than the checked one.
PastTransactions(docs, transaction) ==
  SelectSeq(QueryCategory(docs, transaction.category), LAMBDA d : d.id # transaction.id)

\* The rest of checkTransactionForAnomaly, once the query has returned.
CheckOutcome(docs, transaction) ==
  LET pastTransactions == PastTransactions(docs, transaction)
      contextAmounts   == MapSeq(pastTransactions, LAMBDA t : ParseFloat(t.amount))
      currentAmount    == ParseFloat(transaction.amount)
  IN  IF NotEnough(pastTransactions)
      THEN Null
      ELSE IF ExceedsThreshold(currentAmount, contextAmounts)
           THEN LET score == WindowScore(currentAmount, contextAmounts)
                IN  Checked(transaction, TRUE, score, WindowReason(score, transaction))
           ELSE Checked(transaction, FALSE, NoScore, NoReason)

CheckFetchReturns ==
  /\ checkPc = "fetching"
  /\ checkFetch' = "ok"
  /\ checkResult' = CheckOutcome(store, checkTx)
  /\ checkPc' = "returned"
  /\ UNCHANGED <<store, catVars, userVars, checkTx, winVars, managerVars>>

Next ==
  \/ \E c \in Categories : CategoryCall(c)
  \/ \E c \in Categories : CategoryFetchFails(c)
  \/ \E c \in Categories : CategoryFetchReturns(c)
  \/ UserCall
  \/ UserListingFails
  \/ UserListingReturns
  \/ UserJoin
  \/ UserReject
  \/ \E tx \in CheckArguments : CheckCall(tx)
  \/ CheckFetchFails
  \/ CheckFetchReturns

\* The store holds two categories.
Init ==
  /\ store \in UserStores
  /\ InitOps
  /\ InitWindowVars
  /\ ManagerUnused

Spec == Init /\ [][Next]_vars

\* The store holds one category, with every series of amounts.
InitCategory ==
  /\ store \in CategoryStores
  /\ InitOps
  /\ InitWindowVars
  /\ ManagerUnused

SpecCategory == InitCategory /\ [][Next]_vars

\* ------------------------- the detector and the check on the same series

\* Longest history the newest transaction is judged against.
MaxBandLen == 6

\* Largest amount of the newest transaction.
MaxBandAmount == 13

\* The amounts of the history.
BandAmounts == {1, 2, 6}

BandingContexts == UNION {[1..n -> BandAmounts] : n \in minWindowSize..MaxBandLen}

\* The store holds a history of Food expenses on consecutive days; the
\* detector is handed that history followed by the newest transaction.
InitBanding ==
  /\ \E ctx \in BandingContexts, a \in 1..MaxBandAmount :
       /\ store = WindowSeries(ctx, "daily")
       /\ winInput = WindowSeries(Append(ctx, a), "daily")
  /\ InitOps
  /\ winOut = <<>>
  /\ winPc = "ready"
  /\ winChange = "none"
  /\ ManagerUnused

\* The application checks the newest transaction, which is not stored yet.
CheckNewest == CheckCall(winInput[Len(winInput)])

NextBanding ==
  \/ SlidingWindowCall
  \/ CheckNewest
  \/ CheckFetchFails
  \/ CheckFetchReturns

SpecBanding == InitBanding /\ [][NextBanding]_vars

\* ------------------------------------------------------- CategoryManager

\* String.prototype.toLowerCase, character by character
ToLowerCase(ch) ==
  CASE ch = "A" -> "a"
    [] ch = "B" -> "b"
    [] OTHER    -> ch

LowerCase(s) == [k \in 1..Len(s) |-> ToLowerCase(s[k])]

\* String.prototype.trim
RECURSIVE Trim(_)
Trim(s) ==
  IF s = <<>> THEN s
  ELSE IF Head(s) = " " THEN Trim(Tail(s))
  ELSE IF s[Len(s)] = " " THEN Trim(SubSeq(s, 1, Len(s) - 1))
  ELSE s

\* Number(text) for the text of a number field: a sequence of digits
RECURSIVE ToNumber(_)
ToNumber(text) ==
  IF text = <<>> THEN 0
  ELSE 10 * ToNumber(SubSeq(text, 1, Len(text) - 1)) + text[Len(text)]

Category(id, name, budget) == [id |-> id, name |-> name, budget |-> budget]

\* Most handlers awaiting their write at once.
MaxPending == 2

\* Most handlers started in one behaviour.
MaxHandlers == 3

\* Most milliseconds the clock advances.
MaxTicks == 1

\* Date.now() when the dialog opens; the stored identifiers are smaller.
FirstInstant == 7

\* What the user types into the name field.
TypedNames == {<<" ">>, <<"a">>, <<"A", " ">>, <<"b">>}

\* What the user types into a budget field.
TypedBudgets == {<<>>, <<5>>}

\* The categories fetchCategories found when the dialog opened.
FetchedCategories ==
  {<<>>,
   <<Category(1, <<"a">>, 0)>>,
   <<Category(1, <<"a">>, 0), Category(2, <<"b">>, 0)>>}

\* The dialog is open and fetchCategories has completed.
InitManager ==
  /\ store = <<>>
  /\ InitOps
  /\ InitWindowVars
  /\ userDoc \in FetchedCategories
  /\ managerCategories = userDoc
  /\ newCategory = <<>>
  /\ error = ""
  /\ pending = <<>>
  /\ clock = FirstInstant
  /\ addsDone = {}
  /\ deletesDone = {}
  /\ writeFailed = FALSE
  /\ started = 0
  /\ overlapped = FALSE

\* onChange of the name field
TypeName(text) ==
  /\ newCategory # text
  /\ newCategory' = text
  /\ UNCHANGED <<userDoc, managerCategories, error, pending, clock, addsDone,
                 deletesDone, writeFailed, started, overlapped>>
  /\ UNCHANGED <<opVars, winVars>>

\* A millisecond passes.
Tick ==
  /\ clock < FirstInstant + MaxTicks
  /\ clock' = clock + 1
  /\ UNCHANGED <<userDoc, managerCategories, newCategory, error, pending,
                 addsDone, deletesDone, writeFailed, started, overlapped>>
  /\ UNCHANGED <<opVars, winVars>>

\* A handler reaches its await of updateDoc with the list it computed.
AwaitUpdateDoc(op, updatedCategories, added, deleted) ==
  /\ Len(pending) < MaxPending
  /\ started < MaxHandlers
  /\ pending' = Append(pending, [op |-> op, updatedCategories |-> updatedCategories,
                                 added |-> added, deleted |-> deleted])
  /\ started' = started + 1
  /\ overlapped' = (overlapped \/ pending # <<>>)

\* handleAddCategory, up to its await
HandleAddCategory ==
  /\ LET name == Trim(newCategory)
     IN  IF name = <<>>
         THEN /\ error' = "Category name cannot be empty"
              /\ UNCHANGED <<pending, started, overlapped>>
         ELSE IF \E k \in 1..Len(managerCategories) :
                   LowerCase(managerCategories[k].name) = LowerCase(name)
         THEN /\ error' = "Category already exists"
              /\ UNCHANGED <<pending, started, overlapped>>
         ELSE LET newCategoryObj == Category(clock, name, 0)
              IN  /\ AwaitUpdateDoc("add", Append(managerCategories, newCategoryObj),
                                    {newCategoryObj}, {})
                  /\ UNCHANGED error
  /\ UNCHANGED <<userDoc, managerCategories, newCategory, clock, addsDone,
                 deletesDone, writeFailed>>
  /\ UNCHANGED <<opVars, winVars>>

\* handleDeleteCategory(categoryId), up to its await
HandleDeleteCategory(categoryId) ==
  /\ \E k \in 1..Len(managerCategories) : managerCategories[k].id = categoryId
  /\ AwaitUpdateDoc("delete",
                    SelectSeq(managerCategories, LAMBDA cat : cat.id # categoryId),
                    {}, {categoryId})
  /\ UNCHANGED <<userDoc, managerCategories, newCategory, error, clock, addsDone,
                 deletesDone, writeFailed>>
  /\ UNCHANGED <<opVars, winVars>>

\* handleUpdateCategory(categoryId, newBudget), up to its await
HandleUpdateCategory(categoryId, newBudget) ==
  /\ \E k \in 1..Len(managerCategories) : managerCategories[k].id = categoryId
  /\ AwaitUpdateDoc("update",
                    [k \in 1..Len(managerCategories) |->
                       IF managerCategories[k].id = categoryId
                       THEN [managerCategories[k] EXCEPT !.budget = ToNumber(newBudget)]
                       ELSE managerCategories[k]],
                    {}, {})
  /\ UNCHANGED <<userDoc, managerCategories, newCategory, error, clock, addsDone,
                 deletesDone, writeFailed>>
  /\ UNCHANGED <<opVars, winVars>>

\* The oldest pending updateDoc resolves (the writes of one client are
\* applied and acknowledged in the order they were issued): the document
\* holds the handler's list, and the handler sets the state to it.
UpdateDocResolves ==
  /\ pending # <<>>
  /\ LET h == Head(pending)
     IN  /\ userDoc' = h.updatedCategories
         /\ managerCategories' = h.updatedCategories
         /\ IF h.op = "add"
            THEN newCategory' = <<>> /\ error' = ""
            ELSE UNCHANGED <<newCategory, error>>
         /\ addsDone' = {c \in addsDone : c.id \notin h.deleted} \cup h.added
         /\ deletesDone' = (deletesDone \ {c.id : c \in h.added}) \cup h.deleted
  /\ pending' = Tail(pending)
  /\ UNCHANGED <<clock, writeFailed, started, overlapped>>
  /\ UNCHANGED <<opVars, winVars>>

\* The oldest pending updateDoc is rejected: the handler's catch sets the
\* error message and leaves the list alone.
UpdateDocRejects ==
  /\ pending # <<>>
  /\ error' = CASE Head(pending).op = "add"    -> "Failed to add category"
                [] Head(pending).op = "delete" -> "Failed to delete category"
                [] OTHER                       -> "Failed to update category budget"
  /\ pending' = Tail(pending)
  /\ writeFailed' = TRUE
  /\ UNCHANGED <<userDoc, managerCategories, newCategory, clock, addsDone,
                 deletesDone, started, overlapped>>
  /\ UNCHANGED <<opVars, winVars>>

NextManager ==
  \/ \E text \in TypedNames : TypeName(text)
  \/ Tick
  \/ HandleAddCategory
  \/ \E categoryId \in 1..(FirstInstant + MaxTicks) : HandleDeleteCategory(categoryId)
  \/ \E categoryId \in 1..(FirstInstant + MaxTicks), newBudget \in TypedBudgets :
       HandleUpdateCategory(categoryId, newBudget)
  \/ UpdateDocResolves
  \/ UpdateDocRejects

SpecManager == InitManager /\ [][NextManager]_vars

\* ------------------------------------------- claims on the window detector

\* What the detector returned for the transaction `tx`.
OutcomeFor(out, tx) ==
  IF \E j \in 1..Len(out) : out[j].id = tx.id
  THEN LET j == CHOOSE j \in 1..Len(out) : out[j].id = tx.id
       IN  [flagged |-> TRUE, score |-> out[j].anomalyScore, reason |-> out[j].reason]
  ELSE [flagged |-> FALSE, score |-> [num |-> 0, sq |-> 0, n |-> 0],
        reason |-> [kind |-> "", name |-> NoName]]

IsFlagged(out, tx) == \E j \in 1..Len(out) : out[j].id = tx.id

\* The parsed amounts at sorted indices max(0, i - 10) .. i - 1 (from 0).
PriorAmounts(sorted, i) ==
  LET first == IF i - 10 > 0 THEN i - 10 ELSE 0
  IN  [k \in 1..(i - first) |-> ParseFloat(sorted[first + k].amount)]

\* n * sum(v^2) - (sum v)^2 = n^2 * (population variance)
ScaledVariance(w) ==
  Len(w) * SumSeq([k \in 1..Len(w) |-> w[k] * w[k]]) - SumSeq(w) * SumSeq(w)

\* amount > mean + 2.5 * stddev of the amounts w, all of them numbers
AboveMeanPlus25Sigma(amount, w) ==
  /\ amount # NaN
  /\ \A k \in 1..Len(w) : w[k] # NaN
  /\ Len(w) * amount - SumSeq(w) > 0
  /\ 4 * (Len(w) * amount - SumSeq(w)) * (Len(w) * amount - SumSeq(w))
       > 25 * ScaledVariance(w)

\* C4: a call on an input that agrees with the previous call's input on
\* sorted positions 0..i (winInput is the sorted array once a call has
\* returned) returns, for the transaction at sorted index i, the
\* same flag, score and reason as the previous call did.
C4_NoLookahead ==
  [][(winPc = "returned" /\ winPc' = "returned") =>
       \A i \in 0..(Len(winInput) - 1) :
         (SubSeq(winInput, 1, i + 1) = SubSeq(winInput', 1, i + 1))
           => OutcomeFor(winOut, winInput[i + 1]) = OutcomeFor(winOut', winInput'[i + 1])]_vars

\* A flagged transaction, then a call with a later transaction's amount
\* changed.
C4_Witness ==
  /\ winPc = "returned"
  /\ winChange = "later"
  /\ Len(winOut) > 0

\* C5 (as claimed): when the context window's standard deviation is 0 the
\* current transaction is not flagged, and no returned score is the result
\* of a division by zero.
C5_ZeroDeviationNotFlagged ==
  winPc = "returned" =>
    /\ \A i \in 5..(Len(winInput) - 1) :
         LET w == PriorAmounts(winInput, i)
         IN  ((\A k \in 1..Len(w) : w[k] # NaN) /\ ScaledVariance(w) = 0)
               => ~IsFlagged(winOut, winInput[i + 1])
    /\ \A j \in 1..Len(winOut) : ~IsInfinite(winOut[j].anomalyScore)

Ids(seq) == {seq[k].id : k \in 1..Len(seq)}

\* The stored expenses of a category, whatever their order.
Qualifying(c) ==
  {k \in 1..Len(store) : store[k].type = "expense" /\ store[k].category = c}

\* The stored expenses of tx's category other than tx itself.
OtherStored(tx) == {k \in Qualifying(tx.category) : store[k].id # tx.id}

\* Two anomaly lists flag the same transactions, in the same order, with the
\* same scores and reasons.
SameAnomalies(xs, ys) ==
  /\ Len(xs) = Len(ys)
  /\ \A k \in 1..Len(xs) :
       /\ xs[k].id = ys[k].id
       /\ xs[k].anomalyScore = ys[k].anomalyScore
       /\ xs[k].reason = ys[k].reason

\* C1: a category run whose query returned fewer than 5 transactions
\* resolves with no anomalies, the message and no method label, the outlier
\* model not run; checkTransactionForAnomaly, with fewer than 5 other stored
\* expenses of the category, returns null; neither throws.
C1_InsufficientData ==
  /\ \A c \in Categories :
       (catFetch[c] = "ok" /\ Cardinality(Qualifying(c)) < 5)
         => /\ catPc[c] = "resolved"
            /\ catResult[c].anomalies = <<>>
            /\ catResult[c].message
            /\ ~catResult[c].method
            /\ catModel[c] = "not run"
  /\ (checkPc = "returned" /\ Cardinality(OtherStored(checkTx)) < 5)
       => checkResult.isNull
  /\ checkPc \in {"idle", "fetching", "returned"}

\* A category of four transactions has resolved.
C1_Witness ==
  /\ Cardinality(Qualifying(Food)) = 4
  /\ catPc[Food] = "resolved"
  /\ catResult[Food].message

\* A stored transaction with four others of its category has been checked.
C1_WitnessCheck ==
  /\ checkPc = "returned"
  /\ checkFetch = "ok"
  /\ checkTx.id # 0
  /\ Cardinality(OtherStored(checkTx)) = 4

\* C2 (as claimed): a run whose query returned at least 5 transactions
\* always resolves; when the outlier model failed, with the anomalies of the
\* sliding-window detector and the method label; and the method label is
\* there only then.
C2_AlwaysReturns ==
  \A c \in Categories :
    (catFetch[c] = "ok" /\ Cardinality(Qualifying(c)) >= 5)
      => /\ catPc[c] = "resolved"
         /\ (catModel[c] \in {"threw", "nan"})
              => /\ catResult[c].method
                 /\ SameAnomalies(catResult[c].anomalies,
                                  detectAnomaliesWithSlidingWindow(QueryCategory(store, c)))
         /\ catResult[c].method => catModel[c] \in {"threw", "nan"}

\* What is left of C2 once the run has not thrown.
C2_WhenResolved ==
  \A c \in Categories :
    (catFetch[c] = "ok" /\ Cardinality(Qualifying(c)) >= 5 /\ catPc[c] = "resolved")
      => /\ (catModel[c] \in {"threw", "nan"})
              => /\ catResult[c].method
                 /\ SameAnomalies(catResult[c].anomalies,
                                  detectAnomaliesWithSlidingWindow(QueryCategory(store, c)))
         /\ catResult[c].method => catModel[c] \in {"threw", "nan"}

\* C3 (as claimed): a failed fetch ends each of the three operations in a
\* failure, never in a normal return.
C3_FetchFailureSurfaces ==
  /\ \A c \in Categories : catFetch[c] = "failed" => catPc[c] = "rejected"
  /\ userFetch = "failed" => userPc = "failed"
  /\ (\E k \in 1..Len(userCats) : catFetch[userCats[k]] = "failed") => userPc # "returned"
  /\ checkFetch = "failed" => checkPc # "returned"

\* C3 (amended): a failed fetch ends detectAnomaliesForCategory and
\* detectAnomaliesForUser in a failure; checkTransactionForAnomaly catches
\* it and returns null.
C3_FetchFailureSurfacesButCheck ==
  /\ \A c \in Categories : catFetch[c] = "failed" => catPc[c] = "rejected"
  /\ userFetch = "failed" => userPc = "failed"
  /\ (\E k \in 1..Len(userCats) : catFetch[userCats[k]] = "failed") => userPc # "returned"
  /\ checkFetch = "failed" => (checkPc = "returned" /\ checkResult.isNull)

\* detectAnomaliesForUser has failed on the failed query of one category,
\* the other category's run having resolved.
C3_Witness ==
  /\ userPc = "failed"
  /\ catFetch[Rent] = "failed"
  /\ catPc[Food] = "resolved"

\* The time of an anomaly's date; comparisons with NaN are false.
Later(a, b) ==
  GetTime(a.date) # NaN /\ GetTime(b.date) # NaN /\ GetTime(a.date) > GetTime(b.date)

SameDate(a, b) ==
  GetTime(a.date) # NaN /\ GetTime(b.date) # NaN /\ GetTime(a.date) = GetTime(b.date)

\* |score(a)| >= |score(b)|
AbsScoreAtLeast(a, b) ==
  a.anomalyScore.num * a.anomalyScore.num * a.anomalyScore.n * b.anomalyScore.sq
    >= b.anomalyScore.num * b.anomalyScore.num * b.anomalyScore.n * a.anomalyScore.sq

\* The feed holds every anomaly of every category run, once, and no other.
FeedIsUnion ==
  /\ Ids(feed) = UNION {Ids(catResult[userCats[k]].anomalies) : k \in 1..Len(userCats)}
  /\ Len(feed) = SumSeq([k \in 1..Len(userCats) |-> Len(catResult[userCats[k]].anomalies)])
  /\ \A j \in 1..Len(feed) :
       \E k \in 1..Len(userCats) :
         \E i \in 1..Len(catResult[userCats[k]].anomalies) :
           catResult[userCats[k]].anomalies[i] = feed[j]

\* C6 (as claimed): the returned feed is a permutation of the categories'
\* anomalies, and for every adjacent pair (a, b) of it date(a) > date(b), or
\* date(a) = date(b) and |score(a)| >= |score(b)|.
C6_FeedOrdered ==
  userPc = "returned" =>
    /\ FeedIsUnion
    /\ \A j \in 1..(Len(feed) - 1) :
         \/ Later(feed[j], feed[j + 1])
         \/ SameDate(feed[j], feed[j + 1]) /\ AbsScoreAtLeast(feed[j], feed[j + 1])

\* What is left of C6 when every anomaly of the feed has a date that parses.
C6_WhenDatesParse ==
  (userPc = "returned" /\ \A j \in 1..Len(feed) : GetTime(feed[j].date) # NaN) =>
    /\ FeedIsUnion
    /\ \A j \in 1..(Len(feed) - 1) :
         \/ Later(feed[j], feed[j + 1])
         \/ SameDate(feed[j], feed[j + 1]) /\ AbsScoreAtLeast(feed[j], feed[j + 1])

\* C7: once the listing has returned there is one run per distinct category
\* of the stored expenses; a feed is returned only when every one of them
\* has resolved, and then holds the anomalies of every category; with a
\* rejected run no feed is returned, and the call fails only on a rejected
\* run.
C7_JoinsAll ==
  (userFetch = "ok") =>
    /\ {userCats[k] : k \in 1..Len(userCats)} = {store[k].category : k \in UNION {Qualifying(c) : c \in Categories}}
    /\ \A j, k \in 1..Len(userCats) : (j # k) => userCats[j] # userCats[k]
    /\ \A c \in Categories :
         (catPc[c] # "idle") <=> (\E k \in 1..Len(userCats) : userCats[k] = c)
    /\ (userPc = "returned")
         => /\ \A k \in 1..Len(userCats) : catPc[userCats[k]] = "resolved"
            /\ FeedIsUnion
    /\ (\E k \in 1..Len(userCats) : catPc[userCats[k]] = "rejected") => userPc # "returned"
    /\ (userPc = "failed") => \E k \in 1..Len(userCats) : catPc[userCats[k]] = "rejected"

\* A feed of at least three anomalies, from two categories.
C7_Witness ==
  /\ userPc = "returned"
  /\ Len(userCats) = 2
  /\ Len(catResult[Food].anomalies) >= 1
  /\ Len(catResult[Rent].anomalies) >= 2

\* C9 (as claimed): the reason of every anomaly of a category run's result
\* names the category display name that the anomaly carries.
C9_ReasonNamesCategory ==
  \A c \in Categories :
    (catPc[c] = "resolved")
      => \A k \in 1..Len(catResult[c].anomalies) :
           catResult[c].anomalies[k].reason.name = catResult[c].anomalies[k].categoryName

\* The parsed amounts of the stored expenses of tx's category, tx itself and
\* those dated after tx left out.
PriorAmountsOf(tx) ==
  LET prior == SelectSeq(store, LAMBDA d :
                 /\ d.type = "expense"
                 /\ d.category = tx.category
                 /\ d.id # tx.id
                 /\ ~(GetTime(d.date) # NaN /\ GetTime(tx.date) # NaN
                      /\ GetTime(d.date) > GetTime(tx.date)))
  IN  [k \in 1..Len(prior) |-> ParseFloat(prior[k].amount)]

\* C10 (as claimed): with at least 5 prior transactions (the stored record
\* of the same identifier and the transactions dated after the checked one
\* left out) the check returns isAnomaly = true exactly when the amount is
\* above mean + 2.5 * stddev of the prior ones.
C10_JudgedAgainstPrior ==
  (checkPc = "returned" /\ checkFetch = "ok" /\ Len(PriorAmountsOf(checkTx)) >= 5)
    => /\ ~checkResult.isNull
       /\ checkResult.isAnomaly
            <=> AboveMeanPlus25Sigma(ParseFloat(checkTx.amount), PriorAmountsOf(checkTx))

\* What the code does instead: every other stored expense of the category
\* counts, whatever its date.
C10_JudgedAgainstAllOthers ==
  (checkPc = "returned" /\ checkFetch = "ok" /\ Cardinality(OtherStored(checkTx)) >= 5)
    => LET others == SelectSeq(store, LAMBDA d :
                       d.type = "expense" /\ d.category = checkTx.category /\ d.id # checkTx.id)
       IN  /\ ~checkResult.isNull
           /\ checkResult.isAnomaly
                <=> AboveMeanPlus25Sigma(ParseFloat(checkTx.amount),
                                         [k \in 1..Len(others) |-> ParseFloat(others[k].amount)])

\* -------------------------------------------------- claims on the banding

\* How the score num / sqrt(sq / n) of a flagged transaction (num > 0)
\* compares with the integer k >= 0.
ScoreVersus(score, k) ==
  LET lhs == score.num * score.num * score.n
      rhs == k * k * score.sq
  IN  IF lhs > rhs THEN "above" ELSE IF lhs = rhs THEN "equal" ELSE "below"

\* The band the strict comparisons give a score.
BandOf(score) ==
  IF ScoreVersus(score, 5) = "above" THEN "extremely high"
  ELSE IF ScoreVersus(score, 3) = "above" THEN "significantly higher"
  ELSE "higher than typical"

StrictlyBanded(score, reason) ==
  /\ reason.kind = "extremely high" <=> ScoreVersus(score, 5) = "above"
  /\ reason.kind = "significantly higher"
       <=> (ScoreVersus(score, 3) = "above" /\ ScoreVersus(score, 5) # "above")
  /\ reason.kind = "higher than typical" <=> ScoreVersus(score, 3) # "above"
  /\ ScoreVersus(score, 5) = "equal" => reason.kind = "significantly higher"
  /\ ScoreVersus(score, 3) = "equal" => reason.kind = "higher than typical"
  /\ reason.kind = BandOf(score)

CheckFlagged == checkPc = "returned" /\ ~checkResult.isNull /\ checkResult.isAnomaly

\* C11: every transaction flagged by the sliding-window detector, and every
\* transaction checkTransactionForAnomaly returns as an anomaly, has the
\* 'extremely high' reason iff its score > 5, the 'significantly higher'
\* reason iff 3 < score <= 5 and the 'higher than typical' reason iff
\* score <= 3; a score of exactly 5 or exactly 3 gets the lower band.
C11_StrictBanding ==
  /\ \A j \in 1..Len(winOut) : StrictlyBanded(winOut[j].anomalyScore, winOut[j].reason)
  /\ CheckFlagged => StrictlyBanded(checkResult.anomalyScore, checkResult.reason)

\* Both the detector and the check have flagged a transaction whose score
\* is exactly 5.
C11_Witness ==
  /\ winPc = "returned"
  /\ \E j \in 1..Len(winOut) :
       /\ winOut[j].anomalyScore.sq > 0
       /\ ScoreVersus(winOut[j].anomalyScore, 5) = "equal"
  /\ CheckFlagged
  /\ checkResult.anomalyScore.sq > 0
  /\ ScoreVersus(checkResult.anomalyScore, 5) = "equal"

\* The same with a score of exactly 3.
C11_WitnessThree ==
  /\ winPc = "returned"
  /\ \E j \in 1..Len(winOut) :
       /\ winOut[j].anomalyScore.sq > 0
       /\ ScoreVersus(winOut[j].anomalyScore, 3) = "equal"
  /\ CheckFlagged
  /\ checkResult.anomalyScore.sq > 0
  /\ ScoreVersus(checkResult.anomalyScore, 3) = "equal"

\* ------------------------------------------------ claims on CategoryManager

\* No handler is awaiting its write and no write was rejected.
AllCompleted == pending = <<>> /\ ~writeFailed

Holds(list, c) == \E k \in 1..Len(list) : list[k].id = c.id /\ list[k].name = c.name

HoldsId(list, id) == \E k \in 1..Len(list) : list[k].id = id

DistinctNames(list) ==
  \A j, k \in 1..Len(list) :
    j # k => LowerCase(list[j].name) # LowerCase(list[k].name)

ReflectsCompleted ==
  /\ userDoc = managerCategories
  /\ \A id \in deletesDone : ~HoldsId(userDoc, id)
  /\ \A c \in addsDone : Holds(userDoc, c)
  /\ DistinctNames(userDoc)

\* C12 (as claimed): once every handler started has completed, with every
\* write successful, the stored list equals the component's list, holds no
\* category removed by a completed delete, holds every category added by a
\* completed add, and holds no two categories whose names are equal up to
\* case -- whatever the interleaving of the handlers.
C12_ReflectsEveryOperation == AllCompleted => ReflectsCompleted

\* The same, for the behaviours in which no handler was started while
\* another was awaiting its write.
C12_WhenNotOverlapped == (AllCompleted /\ ~overlapped) => ReflectsCompleted

====
